---- MODULE Spec2Model ----
(***************************************************************************)
(* A model of gnucash-qif-import: the importer of src/import.py (main,      *)
(* readrules, read_entries, get_ac_from_str, add_transaction,               *)
(* write_transactions_to_gnucash), the rule loader and the line-oriented    *)
(* parser of src/qif.py (parse_qif).                                        *)
(*                                                                          *)
(* Three specifications share the module:                                   *)
(*   Spec       the importer process, run up to MaxRuns times over the same *)
(*              command line, with a persistent ledger file and a           *)
(*              persistent processed-file cache;                            *)
(*   SpecRules  readrules and get_ac_from_str applied to bounded rule files *)
(*              and texts;                                                  *)
(*   SpecQif    parse_qif stepping over the lines of a bounded input.       *)
(* Text is a sequence of characters; a regular expression is one of the     *)
(* three shapes the model needs (a literal, ".*", a malformed pattern).     *)
(***************************************************************************)
EXTENDS Integers, Sequences, FiniteSets, TLC

(***************************************************************************)
(* Bounds.                                                                  *)
(***************************************************************************)
MaxRuns == 2
MaxFiles == 2
MaxItems == 2

(***************************************************************************)
(* Values.                                                                  *)
(***************************************************************************)
None == "None"
NoAmount == <<>>
IGNORE == "IGNORE"
KeyError == "KeyError"

\* piecash book: the accounts that exist in the ledger and their commodity.
BookAccounts == {"Bank", "Food", "Imbalance-GBP"}

Commodity(acc) == "GBP"

ImbalanceAccount(mnemonic) == IF mnemonic = "GBP" THEN "Imbalance-GBP" ELSE "Imbalance-"

\* book.accounts(fullname=name): the account, or KeyError when there is none.
accounts(name) == IF name \in BookAccounts THEN name ELSE KeyError

(***************************************************************************)
(* Regular expressions and rules.                                           *)
(***************************************************************************)
Lit(s) == [kind |-> "lit", s |-> s]
DotStar == [kind |-> "any", s |-> <<>>]
BadRe == [kind |-> "bad", s |-> <<>>]

\* pattern.search(text): the pattern matches anywhere within the text.
search(pattern, text) ==
    \/ pattern.kind = "any"
    \/ /\ pattern.kind = "lit"
       /\ \E i \in 1..(Len(text) + 1) :
            /\ i + Len(pattern.s) - 1 <= Len(text)
            /\ SubSeq(text, i, i + Len(pattern.s) - 1) = pattern.s

\* A line of the rules file, by what strip / startswith / re.match make of it.
BlankLine == [kind |-> "blank", ac |-> None, pattern |-> DotStar]
CommentLine == [kind |-> "comment", ac |-> None, pattern |-> DotStar]
BadLine == [kind |-> "noformat", ac |-> None, pattern |-> DotStar]
RuleLine(ac, pattern) == [kind |-> "rule", ac |-> ac, pattern |-> pattern]

RECURSIVE readrules_loop(_, _)
readrules_loop(lines, rules) ==
    IF lines = <<>> THEN [err |-> FALSE, rules |-> rules]
    ELSE LET line == Head(lines) IN
         IF line.kind \in {"blank", "comment"}
         THEN readrules_loop(Tail(lines), rules)
         ELSE IF line.kind = "rule"
         THEN IF line.pattern.kind = "bad"
              THEN [err |-> TRUE, rules |-> rules]
              ELSE readrules_loop(Tail(lines),
                       Append(rules, [pattern |-> line.pattern, ac |-> line.ac]))
         ELSE readrules_loop(Tail(lines), rules)

\* readrules as its docstring describes it ("in reverse order from the file").
readrules_reversed(lines) ==
    LET r == readrules_loop(lines, <<>>) IN
    [err |-> r.err,
     rules |-> [i \in 1..Len(r.rules) |-> r.rules[Len(r.rules) + 1 - i]]]

readrules(lines) == readrules_loop(lines, <<>>)

RECURSIVE first_match(_, _)
first_match(rules, search_str) ==
    IF rules = <<>> THEN None
    ELSE IF search(Head(rules).pattern, search_str) THEN Head(rules).ac
    ELSE first_match(Tail(rules), search_str)

\* The lookup without the imbalance fallback.
get_ac_from_str_no_fallback(search_str, rules, has_book, split_account) ==
    first_match(rules, search_str)

get_ac_from_str(search_str, rules, has_book, split_account) ==
    LET hit == first_match(rules, search_str) IN
    IF hit # None THEN hit
    ELSE IF has_book
         THEN IF accounts(split_account) = KeyError THEN KeyError
              ELSE ImbalanceAccount(Commodity(split_account))
         ELSE None

getCategory(item, rules) == get_ac_from_str(item.payee, rules, TRUE, item.account)

(***************************************************************************)
(* Paths, files and parsed records of the importer's inputs.                *)
(***************************************************************************)
Path(dir, name, ext) == [dir |-> dir, name |-> name, ext |-> ext]

PA == Path(<<>>, <<"a">>, ".qif")
PD == Path(<<"d", "/">>, <<"b">>, ".csv")
PT == Path(<<>>, <<"c">>, ".txt")
Paths == {PA, PD, PT}

basename(fn) == [fn EXCEPT !.dir = <<>>]
PathText(fn) == fn.dir \o fn.name \o <<fn.ext>>

Day(d, t) == [day |-> d, time |-> t]
date(dt) == dt.day

Item(payee, dt, amount, split_amount, account, split_category) ==
    [payee |-> payee, date |-> dt, amount |-> amount, split_amount |-> split_amount,
     account |-> account, split_category |-> split_category]

I1 == Item(<<"a">>, Day(1, 0), 5, NoAmount, None, "Food")
I2 == Item(<<"a">>, Day(1, 1), 9, <<5>>, "Bank", None)
I3 == Item(<<"b">>, Day(1, 0), 5, NoAmount, None, None)
I4 == Item(<<"a">>, Day(2, 0), 5, NoAmount, None, IGNORE)
I5 == Item(<<"a">>, Day(2, 0), -5, NoAmount, "Checking", None)
Items == {I1, I2, I3, I4, I5}

SeqsUpTo(S, n) == UNION {[1..k -> S] : k \in 0..n}

\* What the parser makes of a file: its records, or a fatal parse error. The
\* records of one file are distinct records of Items (I1 and I2 are the two
\* records of a file that the duplicate check takes for the same).
ParseError == [err |-> TRUE, items |-> <<>>]
Parsed(items) == [err |-> FALSE, items |-> items]
Contents ==
    {ParseError} \cup
    {Parsed(s) : s \in {t \in SeqsUpTo(Items, MaxItems) :
                            \A i \in 1..Len(t) : \A j \in 1..Len(t) :
                                i # j => t[i] # t[j]}}

R0 == <<>>
R1 == <<CommentLine, RuleLine(IGNORE, Lit(<<"b">>)), RuleLine("Food", DotStar)>>
R2 == <<RuleLine("Bank", Lit(<<".qif">>)), BadLine, RuleLine("Nope", Lit(<<"b">>))>>
R3 == <<BlankLine, RuleLine("Food", BadRe)>>
RuleFiles == {R0, R1, R2, R3}

\* The files on disk: a.qif holds any of the contents, d/b.csv two records
\* of its own, and c.txt is a file neither parser is chosen for.
FileSystems ==
    {[p \in Paths |-> IF p = PA THEN c
                     ELSE IF p = PD THEN Parsed(<<I2, I3>>)
                     ELSE Parsed(<<>>)] : c \in Contents}

FileLists == SeqsUpTo(Paths, MaxFiles) \ {<<>>}

(***************************************************************************)
(* The ledger: a sequence of transactions, each with its splits.            *)
(***************************************************************************)
Split(account, value) == [account |-> account, value |-> value]

\* The two splits without the negation of the second.
splits_unbalanced(acc, acc2, amount) == <<Split(acc, amount), Split(acc2, amount)>>

\* src/import.py:106-109
splits(acc, acc2, amount) == <<Split(acc, amount), Split(acc2, -amount)>>

Transaction(item, acc, acc2, amount) ==
    [description |-> item.payee, post_date |-> date(item.date),
     splits |-> splits(acc, acc2, amount)]

\* The splits on account acc without those of the transaction created last.
acc_splits_before_latest(book, acc) ==
    {[transaction |-> book[p[1]], value |-> book[p[1]].splits[p[2]].value] :
        p \in {q \in (1..(Len(book) - 1)) \X {1, 2} : book[q[1]].splits[q[2]].account = acc}}

\* acc.splits: the splits of the book that are on account acc, each with its
\* transaction.
acc_splits(book, acc) ==
    {[transaction |-> book[p[1]], value |-> book[p[1]].splits[p[2]].value] :
        p \in {q \in (1..Len(book)) \X {1, 2} : book[q[1]].splits[q[2]].account = acc}}

(***************************************************************************)
(* read_entries: the file-level check against the processed-file set, the   *)
(* parse, the defaults, and the addition to the set.                        *)
(***************************************************************************)
fill_defaults(item, default_account) ==
    [item EXCEPT
        !.account = IF item.account = None THEN default_account ELSE item.account,
        !.split_amount = IF item.split_amount = NoAmount THEN item.amount
                         ELSE item.split_amount[1]]

\* src/import.py:47-48
already_imported(fn, imported) == basename(fn) \in imported

read_entries(fn, imported, default_account, parsed) ==
    IF already_imported(fn, imported)
    THEN [err |-> FALSE, skipped |-> TRUE, items |-> <<>>, imported |-> imported]
    ELSE IF fn.ext \notin {".csv", ".qif"} \/ parsed.err
    THEN [err |-> TRUE, skipped |-> FALSE, items |-> <<>>, imported |-> imported]
    ELSE [err |-> FALSE, skipped |-> FALSE,
          items |-> [i \in 1..Len(parsed.items) |->
                        fill_defaults(parsed.items[i], default_account)],
          imported |-> imported \cup {fn}]

(***************************************************************************)
(* add_transaction.                                                         *)
(***************************************************************************)
\* add_transaction without the duplicate check, and with a duplicate check
\* that leaves the description out.
never_duplicate(splits_of_acc, item, amount) == FALSE

is_duplicate_any_payee(splits_of_acc, item, amount) ==
    \E split \in splits_of_acc :
        /\ split.transaction.post_date = date(item.date)
        /\ split.value = amount

\* src/import.py:92-95
\* The posting date compared with the record's date and its time of day.
is_duplicate_at_midnight(splits_of_acc, item, amount) ==
    \E split \in splits_of_acc :
        /\ split.transaction.description = item.payee
        /\ split.transaction.post_date = date(item.date)
        /\ item.date.time = 0
        /\ split.value = amount

is_duplicate(splits_of_acc, item, amount) ==
    \E split \in splits_of_acc :
        /\ split.transaction.description = item.payee
        /\ split.transaction.post_date = date(item.date)
        /\ split.value = amount

\* The sentinel compared in another spelling.
is_ignore_other_case(category) == category = "Ignore"

\* src/import.py:84
is_ignore(category) == category = IGNORE

\* The transaction created whatever the flag.
creates_always(dry_run) == TRUE

\* No transaction created whatever the flag.
creates_never(dry_run) == FALSE

\* src/import.py:100
creates(dry_run) == ~dry_run

Outcome(outcome, book, item) == [outcome |-> outcome, book |-> book, item |-> item]

add_transaction(book, acc, item, rules, dry_run) ==
    LET category == IF item.split_category = None THEN getCategory(item, rules)
                    ELSE item.split_category
        resolved == [item EXCEPT !.split_category = category]
        amount == item.split_amount
    IN  IF category = KeyError THEN Outcome("error", book, item)
        ELSE IF is_ignore(category) THEN Outcome("ignored", book, resolved)
        ELSE IF accounts(category) = KeyError THEN Outcome("error", book, resolved)
        ELSE IF is_duplicate(acc_splits(book, acc), resolved, amount)
        THEN Outcome("duplicate", book, resolved)
        ELSE Outcome("added",
                     IF creates(dry_run)
                     THEN Append(book, Transaction(resolved, acc, accounts(category), amount))
                     ELSE book,
                     resolved)

\* src/import.py:122-127: what the ledger file holds after the finally clause.
save(dry_run, file, book) == IF dry_run THEN file ELSE book

\* The cache written whatever the flag.
writes_cache_always(dry_run) == TRUE

\* src/import.py:159
writes_cache(dry_run) == ~dry_run

(***************************************************************************)
(* State.                                                                   *)
(*   args, content        the command line and the input files, the same    *)
(*                        for every run                                     *)
(*   cache, ledger        the persistent processed-file cache and the       *)
(*                        persistent GnuCash file                           *)
(*   pc .. book           the running process (main and the functions it    *)
(*                        calls)                                            *)
(*   log .. previous      history: what add_transaction did with each       *)
(*                        record of the run, how the run ended, and the     *)
(*                        persistent state at the start of the run and of   *)
(*                        the current file                                  *)
(***************************************************************************)
VARIABLES args, content, cache, ledger,
          pc, run, dry_run, imported, rules, file_index, default_account,
          all_items, item_index, book,
          log, exit, ledger_at_start, cache_at_start, ledger_at_file,
          cache_writes, previous

main_vars == <<args, content, cache, ledger, pc, run, dry_run, imported, rules,
               file_index, default_account, all_items, item_index, book, log, exit,
               ledger_at_start, cache_at_start, ledger_at_file, cache_writes, previous>>

process_vars == <<imported, rules, file_index, default_account, all_items, item_index,
                  book>>

\* The state of SpecRules (readrules and get_ac_from_str on their own) and of
\* SpecQif (parse_qif's local variables and its position in the input).
VARIABLES rule_lines, loaded, rules_pc, search_str, acpath

rules_vars == <<rule_lines, loaded, rules_pc, search_str, acpath>>

VARIABLES python, infile, line_index, curItem, account, items, qif_pc

qif_vars == <<python, infile, line_index, curItem, account, items, qif_pc>>

VARIABLES csvfile, row_index, csv_items, csv_pc

csv_vars == <<csvfile, row_index, csv_items, csv_pc>>

NoExit == [status |-> "none", stage |-> "none", file |-> 0]
Exit(status, stage, file) == [status |-> status, stage |-> stage, file |-> file]

MainInit ==
    /\ args \in [file : FileLists, default_account : {None, "Bank"},
                 rulesfile : RuleFiles]
    /\ content \in FileSystems
    /\ cache = {}
    /\ ledger = <<>>
    /\ pc = "idle"
    /\ run = 0
    /\ dry_run = FALSE
    /\ imported = {}
    /\ rules = <<>>
    /\ file_index = 1
    /\ default_account = None
    /\ all_items = <<>>
    /\ item_index = 1
    /\ book = <<>>
    /\ log = <<>>
    /\ exit = NoExit
    /\ ledger_at_start = <<>>
    /\ cache_at_start = {}
    /\ ledger_at_file = <<>>
    /\ cache_writes = 0
    /\ previous = [dry_run |-> FALSE, exit |-> NoExit]

\* The process ends with an uncaught exception: nothing more is written.
Abort(stage) ==
    /\ pc' = "idle"
    /\ exit' = Exit("error", stage, file_index)

\* src/import.py:130-147: a new process starts; it loads the cache and the rules.
StartRun(dry) ==
    /\ pc = "idle"
    /\ run < MaxRuns
    /\ run' = run + 1
    /\ dry_run' = dry
    /\ previous' = [dry_run |-> dry_run, exit |-> exit]
    /\ imported' = cache
    /\ log' = <<>>
    /\ ledger_at_start' = ledger
    /\ cache_at_start' = cache
    /\ ledger_at_file' = ledger
    /\ cache_writes' = 0
    /\ file_index' = 1
    /\ book' = ledger
    /\ LET from_file == readrules(args.rulesfile) IN
       IF from_file.err
       THEN /\ Abort("rules")
            /\ UNCHANGED rules
       ELSE /\ rules' = from_file.rules
            /\ pc' = "files"
            /\ exit' = NoExit
    /\ UNCHANGED <<args, content, cache, ledger, default_account, all_items, item_index>>
    /\ UNCHANGED <<rules_vars, qif_vars, csv_vars>>

\* src/import.py:149-156 and 111-115: the next file of the command line is
\* read and the book is opened for it.
BeginFile ==
    /\ pc = "files"
    /\ file_index <= Len(args.file)
    /\ LET fn == args.file[file_index]
           chosen == IF args.default_account = None
                     THEN get_ac_from_str(PathText(fn), rules, FALSE, None)
                     ELSE args.default_account
           entries == read_entries(fn, imported, chosen, content[fn])
       IN  /\ ledger_at_file' = ledger
           /\ IF chosen = None
              THEN /\ Abort("default_account")
                   /\ UNCHANGED process_vars
              ELSE IF entries.err
              THEN /\ Abort("read")
                   /\ default_account' = chosen
                   /\ UNCHANGED <<imported, rules, file_index, all_items, item_index, book>>
              ELSE IF accounts(chosen) = KeyError
              THEN /\ Abort("open")
                   /\ default_account' = chosen
                   /\ imported' = entries.imported
                   /\ all_items' = entries.items
                   /\ UNCHANGED <<rules, file_index, item_index, book>>
              ELSE /\ pc' = "items"
                   /\ default_account' = chosen
                   /\ imported' = entries.imported
                   /\ all_items' = entries.items
                   /\ item_index' = 1
                   /\ book' = ledger
                   /\ UNCHANGED <<rules, file_index, exit>>
    /\ UNCHANGED <<args, content, cache, ledger, run, dry_run, log, ledger_at_start,
                   cache_at_start, cache_writes, previous>>
    /\ UNCHANGED <<rules_vars, qif_vars, csv_vars>>

LogEntry(result, before) ==
    [file |-> file_index, index |-> item_index, item |-> result.item,
     outcome |-> result.outcome, account |-> default_account, before |-> Len(before),
     tx |-> IF Len(result.book) > Len(before) THEN Len(result.book) ELSE 0]

\* src/import.py:118-119 and 81-109: one record goes through add_transaction;
\* an exception runs the finally clause (122-127) and ends the process.
AddTransaction ==
    /\ pc = "items"
    /\ item_index <= Len(all_items)
    /\ LET result == add_transaction(book, default_account, all_items[item_index],
                                     rules, dry_run)
       IN  /\ log' = Append(log, LogEntry(result, book))
           /\ book' = result.book
           /\ IF result.outcome = "error"
              THEN /\ ledger' = save(dry_run, ledger, book)
                   /\ Abort("items")
                   /\ UNCHANGED item_index
              ELSE /\ item_index' = item_index + 1
                   /\ UNCHANGED <<ledger, pc, exit>>
    /\ UNCHANGED <<args, content, cache, run, dry_run, imported, rules, file_index,
                   default_account, all_items, ledger_at_start, cache_at_start,
                   ledger_at_file, cache_writes, previous>>
    /\ UNCHANGED <<rules_vars, qif_vars, csv_vars>>

\* src/import.py:120-127: the file's records are done; flush, save unless dry.
EndFile ==
    /\ pc = "items"
    /\ item_index > Len(all_items)
    /\ ledger' = save(dry_run, ledger, book)
    /\ file_index' = file_index + 1
    /\ pc' = "files"
    /\ UNCHANGED <<args, content, cache, run, dry_run, imported, rules, default_account,
                   all_items, item_index, book, log, exit, ledger_at_start,
                   cache_at_start, ledger_at_file, cache_writes, previous>>
    /\ UNCHANGED <<rules_vars, qif_vars, csv_vars>>

\* src/import.py:159-161: every file is done; the cache is written unless dry.
Finish ==
    /\ pc = "files"
    /\ file_index > Len(args.file)
    /\ IF writes_cache(dry_run)
       THEN /\ cache' = imported
            /\ cache_writes' = cache_writes + 1
       ELSE UNCHANGED <<cache, cache_writes>>
    /\ pc' = "idle"
    /\ exit' = Exit("ok", "end", file_index)
    /\ UNCHANGED <<args, content, ledger, run, dry_run, imported, rules, file_index,
                   default_account, all_items, item_index, book, log, ledger_at_start,
                   cache_at_start, ledger_at_file, previous>>
    /\ UNCHANGED <<rules_vars, qif_vars, csv_vars>>

(***************************************************************************)
(* SpecRules: the rules file is loaded and texts are looked up in it.       *)
(***************************************************************************)
MaxRuleLines == 3
MaxText == 2

RuleLineSet ==
    {BlankLine, CommentLine, BadLine,
     RuleLine("Food", Lit(<<"a">>)), RuleLine("Bank", DotStar),
     RuleLine(IGNORE, Lit(<<"b", "a">>)), RuleLine("Nope", BadRe)}

Texts == SeqsUpTo({"a", "b"}, MaxText)

RulesIdle ==
    /\ rule_lines = <<>>
    /\ loaded = [err |-> FALSE, rules |-> <<>>]
    /\ rules_pc = "off"
    /\ search_str = <<>>
    /\ acpath = None

RulesInit ==
    /\ rule_lines \in SeqsUpTo(RuleLineSet, MaxRuleLines)
    /\ loaded = [err |-> FALSE, rules |-> <<>>]
    /\ rules_pc = "start"
    /\ search_str = <<>>
    /\ acpath = None

\* src/import.py:22-44
LoadRules ==
    /\ rules_pc = "start"
    /\ loaded' = readrules(rule_lines)
    /\ rules_pc' = IF loaded'.err THEN "raised" ELSE "loaded"
    /\ UNCHANGED <<rule_lines, search_str, acpath>>
    /\ UNCHANGED <<main_vars, qif_vars, csv_vars>>

\* src/import.py:69-76, called without a book as on line 153
Lookup(text) ==
    /\ rules_pc \in {"loaded", "answered"}
    /\ search_str' = text
    /\ acpath' = get_ac_from_str(text, loaded.rules, FALSE, None)
    /\ rules_pc' = "answered"
    /\ UNCHANGED <<rule_lines, loaded>>
    /\ UNCHANGED <<main_vars, qif_vars, csv_vars>>

(***************************************************************************)
(* SpecQif: parse_qif reads the lines of a file one by one.                 *)
(***************************************************************************)
MaxLines == 4

Line(firstchar, data) == [firstchar |-> firstchar, data |-> data]

\* int(...) of the three components and datetime(year, month, day): the date
\* as <<year, month, day>>; a day or month the calendar does not have raises
\* ValueError.
DaysIn(month, year) ==
    IF month \in {4, 6, 9, 11} THEN 30
    ELSE IF month = 2
         THEN IF year % 4 = 0 /\ (year % 100 # 0 \/ year % 400 = 0) THEN 29 ELSE 28
         ELSE 31

is_date(data) == data[2] \in 1..12 /\ data[1] \in 1..DaysIn(data[2], data[3])

datetime(data) == <<data[3], data[2], data[1]>>

\* Decimal(data.replace(',', '')): the number as <<n>>; text that is no number
\* raises InvalidOperation.
Digits == <<"0", "1", "2", "3", "4", "5", "6", "7", "8", "9">>
DigitValue(c) == (CHOOSE k \in 1..10 : Digits[k] = c) - 1
IsDigit(c) == \E k \in 1..10 : Digits[k] = c
NotComma(c) == c # ","
remove_commas(data) == SelectSeq(data, NotComma)

RECURSIVE digits_value(_, _)
digits_value(chars, sofar) ==
    IF chars = <<>> THEN sofar
    ELSE digits_value(Tail(chars), 10 * sofar + DigitValue(Head(chars)))

is_number(chars) == chars # <<>> /\ \A k \in 1..Len(chars) : IsDigit(chars[k])

Decimal(chars) == <<digits_value(chars, 0)>>

\* src/qif.py:21-48; the fields the model follows (cleared, num, memo, address,
\* category and the split fields are filled like payee and amount).
NoDate == <<>>
QifItem == [type |-> None, date |-> NoDate, account |-> None, amount |-> NoAmount,
            payee |-> None]

LineSet ==
    {Line("\n", <<>>), Line("^", <<>>),
     Line("!", "Account"), Line("!", "Type:Bank"),
     Line("N", "Checking"),
     Line("D", <<3, 1, 2020>>), Line("D", <<31, 2, 2020>>),
     Line("T", <<"1", ",", "2">>),
     Line("P", "a"),
     Line("X", <<>>)}

QifIdle ==
    /\ python = 3
    /\ infile = <<>>
    /\ line_index = 1
    /\ curItem = QifItem
    /\ account = None
    /\ items = <<>>
    /\ qif_pc = "off"

\* src/qif.py:66-68
QifInit ==
    /\ python \in {2, 3}
    /\ infile \in SeqsUpTo(LineSet, MaxLines)
    /\ line_index = 1
    /\ curItem = QifItem
    /\ account = None
    /\ items = <<>>
    /\ qif_pc = "lines"

Raise ==
    /\ qif_pc' = "raised"
    /\ UNCHANGED <<python, infile, line_index, curItem, account, items>>

NextLine ==
    /\ line_index' = line_index + 1
    /\ UNCHANGED <<python, infile, qif_pc>>

Reading(firstchars) ==
    /\ qif_pc = "lines"
    /\ line_index <= Len(infile)
    /\ infile[line_index].firstchar \in firstchars

\* src/qif.py:72-73
BlankLineRead ==
    /\ Reading({"\n"})
    /\ NextLine
    /\ UNCHANGED <<curItem, account, items>>
    /\ UNCHANGED <<main_vars, rules_vars, csv_vars>>

\* Every closed record saved, account definitions too.
is_saved_always(item) == TRUE

\* src/qif.py:76
is_saved(item) == item.type # "Account"

\* The new record without the carried account name.
new_item_unseeded(carried) == QifItem

\* src/qif.py:79-80
new_item(carried) == [QifItem EXCEPT !.account = carried]

\* src/qif.py:74-80
EndOfItem ==
    /\ Reading({"^"})
    /\ items' = IF is_saved(curItem) THEN Append(items, curItem) ELSE items
    /\ curItem' = new_item(account)
    /\ NextLine
    /\ UNCHANGED account
    /\ UNCHANGED <<main_vars, rules_vars, csv_vars>>

\* src/qif.py:81-83
DateLine ==
    /\ Reading({"D"})
    /\ LET data == infile[line_index].data IN
       IF ~is_date(data)
       THEN Raise
       ELSE /\ curItem' = [curItem EXCEPT !.date = datetime(data)]
            /\ NextLine
            /\ UNCHANGED <<account, items>>
    /\ UNCHANGED <<main_vars, rules_vars, csv_vars>>

\* src/qif.py:84-85
AmountLine ==
    /\ Reading({"T"})
    /\ LET data == remove_commas(infile[line_index].data) IN
       IF ~is_number(data)
       THEN Raise
       ELSE /\ curItem' = [curItem EXCEPT !.amount = Decimal(data)]
            /\ NextLine
            /\ UNCHANGED <<account, items>>
    /\ UNCHANGED <<main_vars, rules_vars, csv_vars>>

\* src/qif.py:88-89
PayeeLine ==
    /\ Reading({"P"})
    /\ curItem' = [curItem EXCEPT !.payee = infile[line_index].data]
    /\ NextLine
    /\ UNCHANGED <<account, items>>
    /\ UNCHANGED <<main_vars, rules_vars, csv_vars>>

\* The carried account name taken from every name line.
account_after_name_any(item, carried, data) == data

\* src/qif.py:102-104
account_after_name(item, carried, data) ==
    IF item.type = "Account" THEN data ELSE carried

\* src/qif.py:102-104
NameLine ==
    /\ Reading({"N"})
    /\ account' = account_after_name(curItem, account, infile[line_index].data)
    /\ NextLine
    /\ UNCHANGED <<curItem, items>>
    /\ UNCHANGED <<main_vars, rules_vars, csv_vars>>

\* src/qif.py:105-106
TypeLine ==
    /\ Reading({"!"})
    /\ curItem' = [curItem EXCEPT !.type = infile[line_index].data]
    /\ NextLine
    /\ UNCHANGED <<account, items>>
    /\ UNCHANGED <<main_vars, rules_vars, csv_vars>>

\* src/qif.py:107-109: "print >> sys.stderr, ..." is a print statement under
\* Python 2 and, under Python 3, the expression print >> sys.stderr, which
\* raises TypeError.
UnknownLine ==
    /\ Reading({"X"})
    /\ IF python = 3
       THEN Raise
       ELSE /\ NextLine
            /\ UNCHANGED <<curItem, account, items>>
    /\ UNCHANGED <<main_vars, rules_vars, csv_vars>>

\* src/qif.py:111
Return ==
    /\ qif_pc = "lines"
    /\ line_index > Len(infile)
    /\ qif_pc' = "returned"
    /\ UNCHANGED <<python, infile, line_index, curItem, account, items>>
    /\ UNCHANGED <<main_vars, rules_vars, csv_vars>>

(***************************************************************************)
(* SpecCsv: parse_csv reads the rows of a file with a header line.          *)
(***************************************************************************)
MaxRows == 3

\* src/qif.py:125-129
dateHeaders == <<"date", "Date", "Transaction Date">>
descriptionHeaders == <<"description", "Description", "Transaction Remarks">>
withdrawalHeaders == <<"Withdrawals", "Withdrawal Amount (INR )", "amount", "Amount(GBP)">>
depositHeaders == <<"Deposits", "Deposit Amount (INR )">>
typeHeaders == <<"debitCreditCode">>

\* csv.DictReader (src/qif.py:131): the row as a dictionary keyed by the field
\* names of the header line; a cell is <<text>>, and <<>> (None) for a field
\* the row is too short to have.
DictReader(fieldnames, row) ==
    [h \in {fieldnames[i] : i \in 1..Len(fieldnames)} |->
        LET column == CHOOSE i \in 1..Len(fieldnames) : fieldnames[i] = h IN
        IF column <= Len(row) THEN <<row[column]>> ELSE <<>>]

\* src/qif.py:113-117
RECURSIVE getValue(_, _)
getValue(entry, headerOptions) ==
    IF headerOptions = <<>> THEN <<>>
    ELSE IF Head(headerOptions) \in DOMAIN entry THEN entry[Head(headerOptions)]
    ELSE getValue(entry, Tail(headerOptions))

\* A row without a date skipped like a pending one.
is_pending_or_missing(date_value) == date_value \in {<<"Pending">>, <<>>}

\* src/qif.py:137
is_pending(date_value) == date_value = <<"Pending">>

\* dateutil.parser.parse (src/qif.py:139): the date as <<year, month, day>>;
\* None and text that is no date raise.
DateTexts == {"2020-01-03"}
is_date_text(date_value) == date_value # <<>> /\ date_value[1] \in DateTexts
dateutil_parse(date_value) == <<2020, 1, 3>>

\* -1 * Decimal(...)
negated(amount) == <<0 - amount[1]>>

\* Decimal(value.replace(',', '')) of a cell; None has no replace and text that
\* is no number raises.
is_amount(value) == value # <<>> /\ is_number(remove_commas(value[1]))
amount_of(value) == Decimal(remove_commas(value[1]))

Amount(err, amount) == [err |-> err, amount |-> amount]

\* The withdrawal negated for every marker that reads like a debit.
typed_amount_any_case(txnType, amount) ==
    IF ~is_amount(amount) THEN Amount(TRUE, NoAmount)
    ELSE IF txnType[1] \in {"Debit", "debit"}
    THEN Amount(FALSE, negated(amount_of(amount)))
    ELSE Amount(FALSE, amount_of(amount))

\* src/qif.py:144-149
typed_amount(txnType, amount) ==
    IF ~is_amount(amount) THEN Amount(TRUE, NoAmount)
    ELSE IF txnType[1] = "Debit"
    THEN Amount(FALSE, negated(amount_of(amount)))
    ELSE Amount(FALSE, amount_of(amount))

\* src/qif.py:153 and 157
is_given(value) == value # <<>> /\ value[1] # <<"-", "-">> /\ value[1] # <<"0">>

\* The deposit read first and the withdrawal last.
untyped_amount_withdrawal_last(withdrawal, deposit) ==
    IF (is_given(withdrawal) /\ ~is_amount(withdrawal))
       \/ (is_given(deposit) /\ ~is_amount(deposit))
    THEN Amount(TRUE, NoAmount)
    ELSE IF is_given(withdrawal) THEN Amount(FALSE, negated(amount_of(withdrawal)))
    ELSE IF is_given(deposit) THEN Amount(FALSE, amount_of(deposit))
    ELSE Amount(FALSE, NoAmount)

\* src/qif.py:151-158
untyped_amount(withdrawal, deposit) ==
    IF (is_given(withdrawal) /\ ~is_amount(withdrawal))
       \/ (is_given(deposit) /\ ~is_amount(deposit))
    THEN Amount(TRUE, NoAmount)
    ELSE IF is_given(deposit) THEN Amount(FALSE, amount_of(deposit))
    ELSE IF is_given(withdrawal) THEN Amount(FALSE, negated(amount_of(withdrawal)))
    ELSE Amount(FALSE, NoAmount)

\* src/qif.py:142-158
row_amount(line) ==
    LET txnType == getValue(line, typeHeaders) IN
    IF txnType # <<>>
    THEN typed_amount(txnType, getValue(line, withdrawalHeaders))
    ELSE untyped_amount(getValue(line, withdrawalHeaders), getValue(line, depositHeaders))

\* src/qif.py:134-158: the record of a row that is not pending.
row_item(line) ==
    LET payee == getValue(line, descriptionHeaders) IN
    [QifItem EXCEPT !.date = dateutil_parse(getValue(line, dateHeaders)),
                    !.payee = IF payee = <<>> THEN None ELSE payee[1],
                    !.amount = row_amount(line).amount]

\* The files: a header line and up to MaxRows rows of cells.
D3 == "2020-01-03"
Dashes == <<"-", "-">>
UntypedFields ==
    {<<"Date", "Description", "Withdrawals", "Deposits">>,
     <<"Transaction Date", "Transaction Remarks", "Withdrawal Amount (INR )",
       "Deposit Amount (INR )">>}
UntypedRows ==
    {<<D3, "a", <<"5">>, Dashes>>,
     <<D3, "b", <<"0">>, <<"1", ",", "2">>>>,
     <<D3, "a", <<"5">>, <<"7">>>>,
     <<"Pending", "a", <<"5">>, Dashes>>,
     <<D3, "a", Dashes, <<"0">>>>,
     <<D3, "a", <<"5">>>>,
     <<D3, "a", <<>>, <<"7">>>>}
TypedFields == {<<"date", "description", "debitCreditCode", "amount", "Deposits">>}
TypedRows ==
    {<<D3, "a", "Debit", <<"5">>, <<"7">>>>,
     <<D3, "b", "Credit", <<"5">>, <<"7">>>>,
     <<D3, "a", "debit", <<"1", ",", "2">>, <<"7">>>>,
     <<"Pending", "a", "Debit", <<"5">>, <<"7">>>>,
     <<D3, "a">>}
CsvFile(fieldnames, rows) == [fieldnames |-> fieldnames, rows |-> rows]
CsvFiles ==
    {CsvFile(f, r) : f \in UntypedFields, r \in SeqsUpTo(UntypedRows, MaxRows)}
    \cup {CsvFile(f, r) : f \in TypedFields, r \in SeqsUpTo(TypedRows, MaxRows)}
    \cup {CsvFile(<<"Description", "Withdrawals">>, <<<<"a", <<"5">>>>>>),
          CsvFile(<<"date", "debitCreditCode">>, <<<<D3, "Debit">>>>)}

CsvIdle ==
    /\ csvfile = CsvFile(<<>>, <<>>)
    /\ row_index = 1
    /\ csv_items = <<>>
    /\ csv_pc = "off"

\* src/qif.py:131-133
CsvInit ==
    /\ csvfile \in CsvFiles
    /\ row_index = 1
    /\ csv_items = <<>>
    /\ csv_pc = "rows"

ReadingRow ==
    /\ csv_pc = "rows"
    /\ row_index <= Len(csvfile.rows)

csv_line == DictReader(csvfile.fieldnames, csvfile.rows[row_index])

\* src/qif.py:136-138
PendingRow ==
    /\ ReadingRow
    /\ is_pending(getValue(csv_line, dateHeaders))
    /\ row_index' = row_index + 1
    /\ UNCHANGED <<csvfile, csv_items, csv_pc>>
    /\ UNCHANGED <<main_vars, rules_vars, qif_vars>>

\* src/qif.py:139, 146-149, 154, 158: the date or an amount raises.
RowRaises ==
    /\ ReadingRow
    /\ ~is_pending(getValue(csv_line, dateHeaders))
    /\ ~is_date_text(getValue(csv_line, dateHeaders)) \/ row_amount(csv_line).err
    /\ csv_pc' = "raised"
    /\ UNCHANGED <<csvfile, row_index, csv_items>>
    /\ UNCHANGED <<main_vars, rules_vars, qif_vars>>

\* src/qif.py:134-160
RowRead ==
    /\ ReadingRow
    /\ ~is_pending(getValue(csv_line, dateHeaders))
    /\ is_date_text(getValue(csv_line, dateHeaders))
    /\ ~row_amount(csv_line).err
    /\ csv_items' = Append(csv_items, row_item(csv_line))
    /\ row_index' = row_index + 1
    /\ UNCHANGED <<csvfile, csv_pc>>
    /\ UNCHANGED <<main_vars, rules_vars, qif_vars>>

\* src/qif.py:162
CsvReturn ==
    /\ csv_pc = "rows"
    /\ row_index > Len(csvfile.rows)
    /\ csv_pc' = "returned"
    /\ UNCHANGED <<csvfile, row_index, csv_items>>
    /\ UNCHANGED <<main_vars, rules_vars, qif_vars>>

(***************************************************************************)
(* The specifications.                                                      *)
(***************************************************************************)
vars == <<main_vars, rules_vars, qif_vars, csv_vars>>

MainIdle ==
    /\ args = [file |-> <<PA>>, default_account |-> "Bank", rulesfile |-> R0]
    /\ content = [p \in Paths |-> Parsed(<<>>)]
    /\ cache = {}
    /\ ledger = <<>>
    /\ pc = "off"
    /\ run = 0
    /\ dry_run = FALSE
    /\ imported = {}
    /\ rules = <<>>
    /\ file_index = 1
    /\ default_account = None
    /\ all_items = <<>>
    /\ item_index = 1
    /\ book = <<>>
    /\ log = <<>>
    /\ exit = NoExit
    /\ ledger_at_start = <<>>
    /\ cache_at_start = {}
    /\ ledger_at_file = <<>>
    /\ cache_writes = 0
    /\ previous = [dry_run |-> FALSE, exit |-> NoExit]

Init == MainInit /\ RulesIdle /\ QifIdle /\ CsvIdle

Next ==
    \/ \E dry \in BOOLEAN : StartRun(dry)
    \/ BeginFile
    \/ AddTransaction
    \/ EndFile
    \/ Finish

Spec == Init /\ [][Next]_vars

InitRules == MainIdle /\ RulesInit /\ QifIdle /\ CsvIdle

NextRules ==
    \/ LoadRules
    \/ \E text \in Texts : Lookup(text)

SpecRules == InitRules /\ [][NextRules]_vars

InitQif == MainIdle /\ RulesIdle /\ QifInit /\ CsvIdle

NextQif ==
    \/ BlankLineRead
    \/ EndOfItem
    \/ DateLine
    \/ AmountLine
    \/ PayeeLine
    \/ NameLine
    \/ TypeLine
    \/ UnknownLine
    \/ Return

SpecQif == InitQif /\ [][NextQif]_vars

InitCsv == MainIdle /\ RulesIdle /\ QifIdle /\ CsvInit

NextCsv ==
    \/ PendingRow
    \/ RowRaises
    \/ RowRead
    \/ CsvReturn

SpecCsv == InitCsv /\ [][NextCsv]_vars

(***************************************************************************)
(* Properties of the importer (Spec).                                       *)
(***************************************************************************)
LogEntries == {log[i] : i \in 1..Len(log)}

\* The record as the parser returned it, before read_entries and
\* add_transaction filled it in.
RawItem(e) == content[args.file[e.file]].items[e.index]

\* The book as add_transaction found it when it handled the record of e.
BookBefore(e) == SubSeq(book, 1, e.before)

\* Some split on the import account carries the record's payee, date (the
\* day only) and split amount.
Matches(bk, e) ==
    \E t \in 1..Len(bk) : \E k \in 1..Len(bk[t].splits) :
        /\ bk[t].splits[k].account = e.account
        /\ bk[t].description = RawItem(e).payee
        /\ bk[t].post_date = RawItem(e).date.day
        /\ bk[t].splits[k].value = e.item.split_amount

\* The account of the first rule, in the order of the list, that matches.
FirstRuleAccount(rs, text) ==
    LET hits == {i \in 1..Len(rs) : search(rs[i].pattern, text)} IN
    IF hits = {} THEN None
    ELSE rs[CHOOSE i \in hits : \A j \in hits : i <= j].ac

\* C1: a non-dry run that follows a non-dry run over the same files posts
\* nothing: no transaction is created and the ledger file keeps the content
\* the first run left.
C1_Idempotent ==
    (run >= 2 /\ ~dry_run /\ ~previous.dry_run) =>
        /\ ledger = ledger_at_start
        /\ book = ledger_at_start
        /\ \A e \in LogEntries : e.tx = 0

C1_SecondRunSkipsPostedRecords ==
    /\ run >= 2 /\ pc = "idle" /\ ~dry_run /\ ~previous.dry_run
    /\ previous.exit.status = "ok" /\ exit.status = "ok"
    /\ ledger # <<>>
    /\ \E e \in LogEntries : e.outcome = "duplicate"

\* C2: after a successful non-dry run the persisted processed-file set holds
\* the base name of every file of the run.
C2_BaseNameCached ==
    (run >= 1 /\ pc = "idle" /\ exit.status = "ok" /\ ~dry_run) =>
        \A i \in 1..Len(args.file) : basename(args.file[i]) \in cache

\* C3: a dry run creates no transaction, leaves the ledger file and the
\* persisted cache as they were at its start, and still takes every record
\* through the lookup and the duplicate check: each record handled has its
\* decision logged, and the decision is duplicate exactly when the ledger
\* holds a matching split.
C3_DryRunChangesNothing ==
    (run >= 1 /\ dry_run) =>
        /\ ledger = ledger_at_start
        /\ cache = cache_at_start
        /\ cache_writes = 0
        /\ book = ledger_at_start
        /\ \A e \in LogEntries :
              /\ e.tx = 0
              /\ e.outcome \in {"added", "duplicate"} =>
                    (e.outcome = "duplicate" <=> Matches(ledger_at_start, e))
        /\ pc = "items" =>
              Cardinality({i \in 1..Len(log) : log[i].file = file_index}) = item_index - 1

C3_DryRunLooksUpAndPostsNothing ==
    /\ dry_run /\ pc = "idle" /\ exit.status = "ok"
    /\ \E e \in LogEntries :
          /\ e.outcome = "added"
          /\ RawItem(e).split_category = None
          /\ e.item.split_category \in BookAccounts

\* C4 as stated: a record whose resolved category is not the sentinel creates
\* no transaction if and only if a split on the import account matches it, and
\* is posted otherwise.
C4_SkippedIffMatch ==
    \A e \in LogEntries :
        e.item.split_category \notin {None, IGNORE} =>
            (e.tx = 0 <=> Matches(BookBefore(e), e))

\* C4 amended: a record whose resolved category names an account of the ledger
\* is skipped as a duplicate if and only if a split on the import account has
\* its payee, its date and its split amount; otherwise its transaction is
\* created in a non-dry run and only logged in a dry run.
C4_DuplicateIffMatch ==
    \A e \in LogEntries :
        e.item.split_category \in BookAccounts =>
            /\ e.outcome \in {"duplicate", "added"}
            /\ e.outcome = "duplicate" <=> Matches(BookBefore(e), e)
            /\ e.outcome = "duplicate" => e.tx = 0
            /\ e.outcome = "added" => (e.tx # 0 <=> ~dry_run)
            /\ e.tx # 0 => e.tx = e.before + 1 /\ e.tx <= Len(book)

C4_OneSkippedOnePosted ==
    \E e1 \in LogEntries : \E e2 \in LogEntries :
        /\ e1.file = e2.file
        /\ e1.outcome = "added" /\ e1.tx # 0
        /\ e2.outcome = "duplicate"
        /\ RawItem(e1).date # RawItem(e2).date

\* C5: a record whose category, source-supplied or found by the rules, is the
\* sentinel is dropped before any account is looked up, and no transaction of
\* the ledger comes from it or names the sentinel as an account.
C5_IgnoredNeverPosted ==
    /\ \A e \in LogEntries :
          LET raw == RawItem(e)
              sentinel == \/ raw.split_category = IGNORE
                          \/ /\ raw.split_category = None
                             /\ FirstRuleAccount(rules, raw.payee) = IGNORE
          IN  /\ sentinel => e.outcome = "ignored"
              /\ e.outcome = "ignored" => e.tx = 0
              /\ e.tx # 0 => ~sentinel
    /\ \A t \in 1..Len(ledger) : \A k \in 1..Len(ledger[t].splits) :
          ledger[t].splits[k].account # IGNORE

C5_IgnoredByRuleAndBySource ==
    /\ pc = "idle" /\ exit.status = "ok" /\ ~dry_run
    /\ \E e \in LogEntries : e.outcome = "ignored" /\ RawItem(e).split_category = None
    /\ \E e \in LogEntries : e.outcome = "ignored" /\ RawItem(e).split_category = IGNORE

\* C7: when a file fails while it is parsed or while its records are posted,
\* the ledger file holds what it held before that file.
C7_NoPartialFileCommit ==
    (exit.status = "error" /\ exit.stage \in {"read", "items"}) =>
        ledger = ledger_at_file

\* C8: the cache is written at most once in a run, only when every file of the
\* run went through the reader and the writer without an error and the run is
\* not dry; in a dry run, in a run that ended with an error and in a run still
\* under way the persisted cache is the one the process started with.
C8_CacheWrittenOnceAtEnd ==
    /\ cache_writes <= 1
    /\ cache_writes = 1 =>
          /\ pc = "idle" /\ exit.status = "ok" /\ ~dry_run
          /\ file_index = Len(args.file) + 1
          /\ cache = imported
    /\ (run >= 1 /\ (dry_run \/ exit.status = "error" \/ pc # "idle")) =>
          cache = cache_at_start /\ cache_writes = 0

C8_CacheWritten ==
    /\ cache_writes = 1 /\ cache # cache_at_start /\ Len(args.file) = 2

\* C9: every transaction the importer creates has two splits on accounts of
\* the ledger, the first on the import account with the record's split amount,
\* the second on the category's account with the negated amount; a category
\* that names no account raises an error and creates nothing.
C9_TwoBalancedSplits ==
    \A e \in LogEntries :
        /\ e.tx # 0 =>
              LET t == book[e.tx]
                  raw == RawItem(e)
                  v == IF raw.split_amount = NoAmount THEN raw.amount
                       ELSE raw.split_amount[1]
              IN  /\ Len(t.splits) = 2
                  /\ t.splits[1].account = e.account
                  /\ t.splits[1].value = v
                  /\ t.splits[2].account = e.item.split_category
                  /\ t.splits[2].value = -v
                  /\ t.splits[1].value + t.splits[2].value = 0
                  /\ {t.splits[1].account, t.splits[2].account} \subseteq BookAccounts
        /\ (e.item.split_category \notin BookAccounts \cup {IGNORE}) =>
              e.outcome = "error" /\ e.tx = 0

C9_PostedAndRaised ==
    /\ \E e \in LogEntries : e.tx # 0 /\ e.item.amount # e.item.split_amount
    /\ \E e \in LogEntries : e.outcome = "error" /\ e.item.split_category = "Nope"

(***************************************************************************)
(* Properties of the rules (SpecRules).                                     *)
(***************************************************************************)
IsRuleLine(line) == line.kind = "rule"

\* The rules of the file from top to bottom.
RulesOfFile(lines) ==
    LET kept == SelectSeq(lines, IsRuleLine) IN
    [i \in 1..Len(kept) |-> [pattern |-> kept[i].pattern, ac |-> kept[i].ac]]

C10_UnknownLineDoesNotAbort ==
    qif_pc = "raised" => infile[line_index].firstchar # "X"

\* The lines from a to b that start with the given character, the last of
\* them (0 when there is none), and the text of that line.
LinesWith(firstchar, a, b) == {j \in a..b : infile[j].firstchar = firstchar}
Last(S) == IF S = {} THEN 0 ELSE CHOOSE j \in S : \A k \in S : k <= j
TextOfLast(firstchar, a, b) ==
    IF LinesWith(firstchar, a, b) = {} THEN None
    ELSE infile[Last(LinesWith(firstchar, a, b))].data

\* The first line of the record that line i belongs to: the line after the
\* last end-of-item marker before i.
RecordStart(i) == Last(LinesWith("^", 1, i - 1)) + 1

\* The type marker of the record in progress when line i is read.
TypeAt(i) == TextOfLast("!", RecordStart(i), i - 1)

\* The end-of-item markers that close a record which is no account definition,
\* and the k-th of them from the top of the input.
Closers == {i \in LinesWith("^", 1, Len(infile)) : TypeAt(i) # "Account"}
Closer(k) == CHOOSE c \in Closers : Cardinality({d \in Closers : d < c}) = k - 1

\* C11: the records saved so far are, in input order, the records closed by
\* the end-of-item markers read so far that close no account definition, one
\* record per marker; at the return the lines after the last marker have
\* added no record.
C11_OneRecordPerMarker ==
    /\ Len(items) = Cardinality({c \in Closers : c < line_index})
    /\ \A k \in 1..Len(items) :
          /\ items[k].type = TypeAt(Closer(k))
          /\ items[k].payee = TextOfLast("P", RecordStart(Closer(k)), Closer(k) - 1)
    /\ qif_pc = "returned" => Len(items) = Cardinality(Closers)

C11_TrailingRecordDiscarded ==
    /\ qif_pc = "returned"
    /\ Len(items) = 1
    /\ items[1].payee = "a"
    /\ infile[Len(infile)].firstchar = "P"
    /\ Closers = {2}

\* The name lines before line i that were read while the record in progress
\* was an account definition, and the account name carried when line i is read.
DefinitionNames(i) == {j \in LinesWith("N", 1, i - 1) : TypeAt(j) = "Account"}
CarriedAt(i) ==
    IF DefinitionNames(i) = {} THEN None ELSE infile[Last(DefinitionNames(i))].data

\* C12: no saved record is an account definition; the carried account name is
\* the name of the last name line read inside an account definition, so it
\* changes on such a line only; every saved record carries the account name
\* as it stood at the end-of-item marker that started the record, and none
\* when no marker came before it.
C12_AccountCarriedOver ==
    /\ \A k \in 1..Len(items) : items[k].type # "Account"
    /\ account = CarriedAt(line_index)
    /\ \A k \in 1..Len(items) :
          items[k].account =
              IF RecordStart(Closer(k)) = 1 THEN None
              ELSE CarriedAt(RecordStart(Closer(k)) - 1)

C12_RecordAfterDefinition ==
    /\ qif_pc = "returned"
    /\ Len(items) = 1
    /\ items[1].account = "Checking"
    /\ DefinitionNames(Len(infile)) # {}

(***************************************************************************)
(* Further properties of the importer (Spec).                               *)
(***************************************************************************)
\* C13: the destination of a record is its own split category when the source
\* set one, whatever the rules say; otherwise the account of the first rule
\* that matches the payee; otherwise "Imbalance-" and the currency code of the
\* record's account, the lookup of that account raising when the ledger has
\* no such account. No record goes on with a null destination.
C13_CategorizerPrecedence ==
    \A e \in LogEntries :
        LET raw == RawItem(e)
            byrule == FirstRuleAccount(rules, raw.payee)
            resolved == e.item.split_category
        IN  /\ raw.split_category # None => resolved = raw.split_category
            /\ (raw.split_category = None /\ byrule # None) => resolved = byrule
            /\ (raw.split_category = None /\ byrule = None) =>
                  IF e.item.account \in BookAccounts
                  THEN resolved = ImbalanceAccount(Commodity(e.item.account))
                  ELSE e.outcome = "error" /\ e.tx = 0
            /\ e.outcome # "error" => resolved # None

C13_EachPrecedenceLevel ==
    /\ \E e \in LogEntries :
          /\ RawItem(e).split_category = "Food"
          /\ e.item.split_category = "Food"
    /\ \E e \in LogEntries :
          /\ RawItem(e).split_category = None
          /\ FirstRuleAccount(rules, RawItem(e).payee) # None
          /\ e.item.split_category = FirstRuleAccount(rules, RawItem(e).payee)
    /\ \E e \in LogEntries :
          /\ RawItem(e).split_category = None
          /\ FirstRuleAccount(rules, RawItem(e).payee) = None
          /\ e.item.split_category = "Imbalance-GBP"
          /\ e.tx # 0

(***************************************************************************)
(* Properties of parse_csv (SpecCsv).                                       *)
(***************************************************************************)
\* The dictionary of row i, the rows whose date does not read "Pending", and
\* the row that the k-th returned record comes from.
RowLine(i) == DictReader(csvfile.fieldnames, csvfile.rows[i])
NonPending ==
    {i \in 1..Len(csvfile.rows) : getValue(RowLine(i), dateHeaders) # <<"Pending">>}
RowOf(k) == CHOOSE i \in NonPending : Cardinality({j \in NonPending : j < i}) = k - 1

\* A cell that is present and is neither "--" nor "0", and its number.
Qualifies(cell) == cell # <<>> /\ cell[1] \notin {<<"-", "-">>, <<"0">>}
Number(cell) == digits_value(remove_commas(cell[1]), 0)

\* C14: a record of a row without a type marker has the deposit as its amount
\* when the deposit is present and is neither "--" nor "0"; otherwise the
\* negated withdrawal when the withdrawal is present and is neither "--" nor
\* "0"; otherwise no amount.
C14_WithdrawalDepositForm ==
    \A k \in 1..Len(csv_items) :
        LET withdrawal == getValue(RowLine(RowOf(k)), withdrawalHeaders)
            deposit == getValue(RowLine(RowOf(k)), depositHeaders)
        IN  getValue(RowLine(RowOf(k)), typeHeaders) = <<>> =>
                csv_items[k].amount =
                    IF Qualifies(deposit) THEN <<Number(deposit)>>
                    ELSE IF Qualifies(withdrawal) THEN <<0 - Number(withdrawal)>>
                    ELSE NoAmount

C14_EachForm ==
    /\ csv_pc = "returned"
    /\ Len(csv_items) = 3
    /\ getValue(RowLine(1), typeHeaders) = <<>>
    /\ csv_items[1].amount = <<0 - 5>> /\ ~Qualifies(getValue(RowLine(1), depositHeaders))
    /\ csv_items[2].amount = <<12>> /\ ~Qualifies(getValue(RowLine(2), withdrawalHeaders))
    /\ csv_items[3].amount = <<7>> /\ Qualifies(getValue(RowLine(3), withdrawalHeaders))

\* C15: a record of a row with a type marker has the negated withdrawal-column
\* value as its amount when the marker is exactly "Debit" and the
\* withdrawal-column value itself for every other marker, whatever the
\* deposit column holds.
C15_TypeColumnForm ==
    \A k \in 1..Len(csv_items) :
        LET marker == getValue(RowLine(RowOf(k)), typeHeaders)
            withdrawal == getValue(RowLine(RowOf(k)), withdrawalHeaders)
        IN  marker # <<>> =>
                csv_items[k].amount =
                    IF marker[1] = "Debit" THEN <<0 - Number(withdrawal)>>
                    ELSE <<Number(withdrawal)>>

C15_DebitCreditAndOther ==
    /\ csv_pc = "returned"
    /\ Len(csv_items) = 3
    /\ \A k \in 1..3 : Qualifies(getValue(RowLine(k), depositHeaders))
    /\ getValue(RowLine(1), typeHeaders) = <<"Debit">> /\ csv_items[1].amount = <<0 - 5>>
    /\ getValue(RowLine(2), typeHeaders) = <<"Credit">> /\ csv_items[2].amount = <<5>>
    /\ getValue(RowLine(3), typeHeaders) = <<"debit">> /\ csv_items[3].amount = <<12>>

\* C16: the records returned so far are, in row order, one record for each
\* row read so far whose date does not read "Pending", and none for a row
\* whose date does; at the return their number is the number of rows that are
\* not pending.
C16_PendingRowsExcluded ==
    /\ Len(csv_items) = Cardinality({i \in NonPending : i < row_index})
    /\ \A k \in 1..Len(csv_items) :
          /\ RowOf(k) < row_index
          /\ <<csv_items[k].payee>> = getValue(RowLine(RowOf(k)), descriptionHeaders)
    /\ csv_pc = "returned" => Len(csv_items) = Cardinality(NonPending)

C16_PendingRowBetween ==
    /\ csv_pc = "returned"
    /\ Len(csvfile.rows) = 3
    /\ NonPending = {1, 3}
    /\ Len(csv_items) = 2
    /\ csv_items[1].payee = "b" /\ csv_items[2].payee = "a"

\* C17: in a run that is not dry the records are handled in file order, and
\* a record that reaches the duplicate check with the payee, the date and the
\* split amount of a record posted earlier in the same run on the same import
\* account is skipped as a duplicate: the check sees the splits of that run.
C17_ReadAfterWrite ==
    ~dry_run =>
        \A i \in 1..Len(log) : \A j \in 1..Len(log) :
            /\ (i < j => \/ log[i].file < log[j].file
                         \/ log[i].file = log[j].file /\ log[i].index < log[j].index)
            /\ ( /\ i < j
                 /\ log[i].tx # 0
                 /\ log[j].account = log[i].account
                 /\ RawItem(log[j]).payee = RawItem(log[i]).payee
                 /\ date(RawItem(log[j]).date) = date(RawItem(log[i]).date)
                 /\ log[j].item.split_amount = log[i].item.split_amount
                 /\ log[j].outcome \in {"duplicate", "added"} )
               => log[j].outcome = "duplicate" /\ log[j].tx = 0

C17_LaterRecordOfSameFileSkipped ==
    /\ run = 1 /\ ~dry_run /\ pc = "idle" /\ exit.status = "ok"
    /\ \E i \in 1..Len(log) : \E j \in 1..Len(log) :
          /\ log[i].file = log[j].file /\ log[i].index < log[j].index
          /\ log[i].tx # 0
          /\ log[j].outcome = "duplicate"
          /\ RawItem(log[i]) # RawItem(log[j])

\* C18 as stated: every record that is handled ends skipped for its category,
\* skipped as a duplicate, or posted.
C18_ThreeOutcomesOnly ==
    \A e \in LogEntries :
        /\ e.outcome \in {"ignored", "duplicate", "added"}
        /\ e.outcome = "added" => e.tx # 0

\* C18: every record is handled at most once, in the order of the files, and
\* ends in exactly one outcome: skipped for its category, skipped as a
\* duplicate, posted (in a dry run logged and not posted), or an error that
\* ends the run, after which no further record is handled; when the run ends
\* without an error every record of every file that was read has one outcome.
C18_OneOutcomePerRecord ==
    /\ \A i \in 1..Len(log) :
          /\ log[i].outcome \in {"ignored", "duplicate", "added", "error"}
          /\ log[i].tx # 0 <=> (log[i].outcome = "added" /\ ~dry_run)
          /\ log[i].outcome = "error" =>
                i = Len(log) /\ pc = "idle" /\ exit.status = "error"
          /\ \A j \in 1..Len(log) :
                i < j => <<log[i].file, log[i].index>> # <<log[j].file, log[j].index>>
    /\ (pc = "idle" /\ exit.status = "ok") =>
          \A f \in 1..Len(args.file) :
              LET handled == {e \in LogEntries : e.file = f} IN
              \/ handled = {}
              \/ {e.index : e \in handled} = 1..Len(content[args.file[f]].items)

C18_EveryOutcomeInOneRun ==
    /\ run = 1 /\ ~dry_run /\ pc = "idle" /\ exit.status = "ok"
    /\ \E e \in LogEntries : e.outcome = "ignored"
    /\ \E e \in LogEntries : e.outcome = "duplicate"
    /\ \E e \in LogEntries : e.outcome = "added" /\ e.tx # 0

\* C19: the processed-file set of the run holds, beyond what the cache held
\* at the start, only files whose records have all been posted by this run,
\* and in a dry run it holds nothing beyond the cache.
C19_SetExtendedAfterPostingOnly ==
    /\ dry_run => imported = cache_at_start
    /\ \A fn \in imported \ cache_at_start :
          \E f \in 1..(file_index - 1) : args.file[f] = fn

\* C20: when a non-dry run has aborted on the k-th file of the command line,
\* the cache has not been written, and a non-dry run that follows over the
\* same files creates no transaction for any record of the files before the
\* k-th: each record that was posted is met again and skipped as a duplicate.
C20_RecoveryAfterAbort ==
    (run >= 2 /\ ~dry_run /\ ~previous.dry_run /\ previous.exit.status = "error") =>
        /\ cache_at_start = {}
        /\ \A e \in LogEntries : e.file < previous.exit.file => e.tx = 0
        /\ \A e \in LogEntries :
              (e.file < previous.exit.file /\ e.outcome \in {"duplicate", "added"})
                  => e.outcome = "duplicate" /\ Matches(ledger_at_start, e)

C20_FirstFileMetAgain ==
    /\ run = 2 /\ ~dry_run /\ ~previous.dry_run
    /\ previous.exit.status = "error" /\ previous.exit.file = 2
    /\ cache = {}
    /\ pc = "idle"
    /\ \E e \in LogEntries : e.file = 1 /\ e.outcome = "duplicate"

====
